---------------------------- MODULE Spec2Model ----------------------------
(***************************************************************************)
(* A model of cpmtool (src/src/tools): the engine that reads and writes    *)
(* raw CP/M-86 floppy images.  The image is the state; create, copy-in,    *)
(* copy-out, delete and list are the operations.                           *)
(*                                                                         *)
(* Bytes are integers 0..255 and characters are their code points.  File   *)
(* data is kept run-length encoded: a run <<t, from, len>> is len bytes,   *)
(* all equal to t when t < 256, and the bytes from .. from+len-1 of the    *)
(* host stream t when t >= 256.                                            *)
(***************************************************************************)
EXTENDS Integers, Sequences, FiniteSets, TLC

VARIABLES img, pre, out, last, nops, al, offset, entry, slot, decoded,
          catalog, permuted, merged

vars == <<img, pre, out, last, nops, al, offset, entry, slot, decoded,
          catalog, permuted, merged>>

----------------------------------------------------------------------------
(* Program constants, src/src/tools/lib/cpmimg.rs:9-25 and :77 *)

NUM_SIDES == 2
NUM_TRACKS == 80
NUM_SECTORS_PER_TRACK == 8
NUM_BYTES_PER_SECTOR == 512
TOTAL_DISKSIZE == NUM_TRACKS * NUM_SECTORS_PER_TRACK * NUM_BYTES_PER_SECTOR * NUM_SIDES
BLOCKSIZE == 16 * 128
DIRBLOCKS == 2
DIRENTRY_SIZE == 32
MAXDIR_ENTRIES == 128
CATALOG_OFFSET == 8192
DATA_OFFSET == CATALOG_OFFSET
MAX_NUM_BLOCKS == (TOTAL_DISKSIZE - DATA_OFFSET) \div BLOCKSIZE
DISKSIZE_OFFSET == 511

(* The byte that marks an empty directory slot and fills a new image. *)
EMPTY == 229

(* U+FFFD, what String::from_utf8_lossy gives for a byte that is not UTF-8. *)
REPLACEMENT == 65533

----------------------------------------------------------------------------
(* Sequences and run-length encoded byte strings *)

Iota(n) == [i \in 1..n |-> i - 1]

Min(a, b) == IF a < b THEN a ELSE b

Max(a, b) == IF a > b THEN a ELSE b

Front(s) == SubSeq(s, 1, Len(s) - 1)

Last(s) == s[Len(s)]

RECURSIVE RunsLen(_)
RunsLen(c) == IF c = <<>> THEN 0 ELSE Head(c)[3] + RunsLen(Tail(c))

Joins(x, y) == x[1] = y[1] /\ (x[1] < 256 \/ y[2] = x[2] + x[3])

Cat(a, b) ==
    IF a = <<>> THEN b
    ELSE IF b = <<>> THEN a
    ELSE IF Joins(Last(a), Head(b))
         THEN Front(a) \o << <<Last(a)[1], Last(a)[2], Last(a)[3] + Head(b)[3]>> >> \o Tail(b)
         ELSE a \o b

RECURSIVE Take(_, _)
Take(c, n) ==
    IF n <= 0 \/ c = <<>> THEN <<>>
    ELSE LET r == Head(c)
         IN  IF r[3] <= n THEN <<r>> \o Take(Tail(c), n - r[3])
             ELSE << <<r[1], r[2], n>> >>

RECURSIVE Drop(_, _)
Drop(c, n) ==
    IF c = <<>> THEN <<>>
    ELSE IF n <= 0 THEN c
    ELSE LET r == Head(c)
         IN  IF r[3] <= n THEN Drop(Tail(c), n - r[3])
             ELSE << <<r[1], IF r[1] < 256 THEN 0 ELSE r[2] + n, r[3] - n>> >> \o Tail(c)

Fill(b, n) == IF n <= 0 THEN <<>> ELSE << <<b, 0, n>> >>

Stream(t, from, n) == IF n <= 0 THEN <<>> ELSE << <<t, from, n>> >>

RECURSIVE BytesToRuns(_)
BytesToRuns(bs) ==
    IF bs = <<>> THEN <<>> ELSE Cat(Fill(Head(bs), 1), BytesToRuns(Tail(bs)))

----------------------------------------------------------------------------
(* The image file.  len is its length in bytes; dir[i] holds the 32 bytes  *)
(* of directory slot i (the 4096 bytes at CATALOG_OFFSET); data[p] holds   *)
(* the bytes of the p-th BLOCKSIZE-sized piece of the file that lie below  *)
(* len, for the pieces below TOTAL_DISKSIZE.  The pieces of the directory  *)
(* are kept in dir, and bytes at or above TOTAL_DISKSIZE are never read or *)
(* written after create (cpmimg.rs:10-11).                                 *)

NUM_PIECES == TOTAL_DISKSIZE \div BLOCKSIZE

DirPieces == { (CATALOG_OFFSET \div BLOCKSIZE) + k : k \in 0..(DIRBLOCKS - 1) }

PieceLen(len, p) == Max(0, Min(BLOCKSIZE, len - p * BLOCKSIZE))

(* file.seek(offset) then file.read_exact(n bytes): the bytes, or an error *)
(* when the file ends before n bytes were read.  A negative off stands for *)
(* the wrapped usize 2^64 + off, an offset the seek refuses.               *)
ReadExact(image, off, n) ==
    LET p == off \div BLOCKSIZE
    IN  IF off < 0 THEN [ok |-> FALSE, bytes |-> <<>>]
        ELSE IF n = 0 THEN [ok |-> TRUE, bytes |-> <<>>]
        ELSE IF off + n > image.len \/ p >= NUM_PIECES
        THEN [ok |-> FALSE, bytes |-> <<>>]
        ELSE IF p \in DirPieces
        THEN LET first == (off - CATALOG_OFFSET) \div DIRENTRY_SIZE
                 RECURSIVE Slots(_)
                 Slots(i) == IF i >= first + (BLOCKSIZE \div DIRENTRY_SIZE) THEN <<>>
                             ELSE Cat(BytesToRuns(image.dir[i]), Slots(i + 1))
             IN  [ok |-> TRUE, bytes |-> Take(Slots(first), n)]
        ELSE [ok |-> TRUE, bytes |-> Take(image.data[p], n)]

(* file.seek(offset) then file.write_all(chunk) on a data piece: the       *)
(* chunk replaces the first bytes of the piece, what follows them stays,   *)
(* and a write that starts at or past the end of the file lengthens it,    *)
(* the gap reading as zeros.                                               *)
WriteAll(image, off, chunk) ==
    LET p == off \div BLOCKSIZE
        n == RunsLen(chunk)
        ZeroFilled(q) ==
            IF q < p /\ q \notin DirPieces /\ RunsLen(image.data[q]) < BLOCKSIZE
            THEN Cat(image.data[q], Fill(0, BLOCKSIZE - RunsLen(image.data[q])))
            ELSE image.data[q]
        data == IF off > image.len
                THEN [q \in DOMAIN image.data |-> ZeroFilled(q)]
                ELSE image.data
    IN  [image EXCEPT
           !.len = Max(image.len, off + n),
           !.data = [data EXCEPT ![p] = Cat(chunk, Drop(data[p], n))]]

(* The same on the directory: 32 bytes at CATALOG_OFFSET + 32*idx. *)
WriteDirBytes(image, off, buf) ==
    [image EXCEPT !.dir[(off - CATALOG_OFFSET) \div DIRENTRY_SIZE] = buf]

----------------------------------------------------------------------------
(* DiskSize, cpmimg.rs:79-130 *)

DiskSize == {"K160", "K320", "K1200", "K360", "K720", "K360_2", "K720_2", "K1440", "K640"}

hex_value(size) ==
    CASE size = "K160"   -> 0
      [] size = "K320"   -> 1
      [] size = "K1200"  -> 12
      [] size = "K360"   -> 16
      [] size = "K720"   -> 17
      [] size = "K360_2" -> 64
      [] size = "K720_2" -> 72
      [] size = "K1440"  -> 144
      [] size = "K640"   -> 229

num_bytes(size) ==
    CASE size = "K160"   -> 160 * 1024
      [] size = "K320"   -> 320 * 1024
      [] size = "K1200"  -> 1200 * 1024
      [] size = "K360"   -> 360 * 1024
      [] size = "K720"   -> 720 * 1024
      [] size = "K360_2" -> 360 * 1024
      [] size = "K720_2" -> 720 * 1024
      [] size = "K1440"  -> 1440 * 1024
      [] size = "K640"   -> 636 * 1024

(* A file of len bytes, every byte 0xE5. *)
Blank(len) ==
    [len  |-> len,
     dir  |-> [i \in 0..(MAXDIR_ENTRIES - 1) |-> [k \in 1..DIRENTRY_SIZE |-> EMPTY]],
     data |-> [p \in 0..(NUM_PIECES - 1) |->
                 IF p \in DirPieces THEN <<>> ELSE Fill(EMPTY, PieceLen(len, p))]]

(* The sectors written and the descriptor left out. *)
create_image_no_descriptor(size) ==
    LET num_tracks == (num_bytes(size) \div NUM_BYTES_PER_SECTOR) \div NUM_SECTORS_PER_TRACK
    IN  Blank(num_tracks * NUM_SECTORS_PER_TRACK * NUM_BYTES_PER_SECTOR)

(* No image file. *)
NoImage == Blank(0)

(* create_image, cpmimg.rs:546-568 *)
create_image(size) ==
    LET num_tracks == (num_bytes(size) \div NUM_BYTES_PER_SECTOR) \div NUM_SECTORS_PER_TRACK
        len == num_tracks * NUM_SECTORS_PER_TRACK * NUM_BYTES_PER_SECTOR
        b == Blank(len)
        p == DISKSIZE_OFFSET \div BLOCKSIZE
        at == DISKSIZE_OFFSET % BLOCKSIZE
    IN  [b EXCEPT !.data[p] =
            Cat(Cat(Take(b.data[p], at), Fill(hex_value(size), 1)), Drop(b.data[p], at + 1))]

----------------------------------------------------------------------------
(* Strings: sequences of code points *)

IsWhite(c) == c \in {9, 10, 11, 12, 13, 32}

RECURSIVE TrimStart(_)
TrimStart(s) == IF s # <<>> /\ IsWhite(Head(s)) THEN TrimStart(Tail(s)) ELSE s

RECURSIVE TrimEnd(_)
TrimEnd(s) == IF s # <<>> /\ IsWhite(Last(s)) THEN TrimEnd(Front(s)) ELSE s

(* str::trim *)
Trim(s) == TrimEnd(TrimStart(s))

(* String::from_utf8_lossy on bytes among which no UTF-8 lead byte is      *)
(* followed by a continuation byte: an ASCII byte is its own character and *)
(* any other byte becomes U+FFFD.                                          *)
from_utf8_lossy(bs) == [i \in 1..Len(bs) |-> IF bs[i] < 128 THEN bs[i] ELSE REPLACEMENT]

UpperChar(c) == IF c >= 97 /\ c <= 122 THEN c - 32 ELSE c

(* str::to_uppercase, on ASCII and U+FFFD *)
to_uppercase(s) == [i \in 1..Len(s) |-> UpperChar(s[i])]

(* str::split on ':' and '.' *)
RECURSIVE SplitName(_, _)
SplitName(s, cur) ==
    IF s = <<>> THEN <<cur>>
    ELSE IF Head(s) \in {58, 46} THEN <<cur>> \o SplitName(Tail(s), <<>>)
    ELSE SplitName(Tail(s), Append(cur, Head(s)))

RECURSIVE Digits(_, _)
Digits(s, acc) ==
    IF s = <<>> THEN acc
    ELSE IF Head(s) < 48 \/ Head(s) > 57 \/ acc < 0 THEN -1
    ELSE Digits(Tail(s), acc * 10 + (Head(s) - 48))

(* str::parse::<u8>().unwrap_or(0): decimal digits after an optional '+'; *)
(* anything else, and any value above 255, gives 0.                       *)
ParseU8(s) ==
    LET body == IF s # <<>> /\ Head(s) = 43 THEN Tail(s) ELSE s
        v == IF body = <<>> THEN -1 ELSE Digits(body, 0)
    IN  IF v < 0 \/ v > 255 THEN 0 ELSE v

----------------------------------------------------------------------------
(* DirEntry, cpmimg.rs:132-200 *)

is_full_extent(e) == e.record_count >= 128

extent_size(e) == IF is_full_extent(e) THEN 128 * 128 ELSE e.record_count * 128

LeBytes(alloc) ==
    [i \in 1..(2 * Len(alloc)) |->
        IF i % 2 = 1 THEN alloc[(i + 1) \div 2] % 256
        ELSE (alloc[i \div 2] \div 256) % 256]

(* The bytes DirEntry::write_to_file collects before it pads them. *)
EntryBuf(e) ==
    <<e.user_number>>
    \o [i \in 1..Len(e.filename) |-> (e.filename[i] % 256) % 128]
    \o [i \in 1..Len(e.filetype) |-> (e.filetype[i] % 256) % 128]
    \o <<e.extent, e.s1, e.s2, e.record_count>>
    \o LeBytes(e.allocation)

ZeroPad(buf) == buf \o [i \in 1..(DIRENTRY_SIZE - Len(buf)) |-> 0]

(* DirEntry::write_to_file: the image after it, or an error and the image *)
(* untouched when the bytes do not fit the record.                        *)
DirEntry_write_to_file(e, image) ==
    IF Len(EntryBuf(e)) > DIRENTRY_SIZE
    THEN [ok |-> FALSE, img |-> image]
    ELSE [ok |-> TRUE,
          img |-> WriteDirBytes(image,
                                CATALOG_OFFSET + e.directory_entry_idx * DIRENTRY_SIZE,
                                ZeroPad(EntryBuf(e)))]

(* FileEntry::write_to_file, cpmimg.rs:219-224: the entries in turn, *)
(* stopping at the first that fails.                                 *)
RECURSIVE FileEntry_write_to_file(_, _)
FileEntry_write_to_file(extents, image) ==
    IF extents = <<>> THEN [ok |-> TRUE, img |-> image]
    ELSE LET r == DirEntry_write_to_file(Head(extents), image)
         IN  IF r.ok THEN FileEntry_write_to_file(Tail(extents), r.img) ELSE r

(* One record of read_catalog, cpmimg.rs:236-288; rec[k+1] is entry[k]. *)
DecodeEntry(idx, rec) ==
    LET words == [k \in 1..8 |-> rec[16 + 2 * k] * 256 + rec[15 + 2 * k]]
        NonZero(w) == w # 0
    IN  [directory_entry_idx |-> idx,
         user_number  |-> rec[1],
         filename     |-> Trim(from_utf8_lossy(SubSeq(rec, 2, 9))),
         filetype     |-> [k \in 1..3 |-> rec[9 + k] % 128],
         extent       |-> rec[13],
         s2           |-> rec[15],
         s1           |-> rec[14],
         record_count |-> rec[16],
         allocation   |-> SelectSeq(words, NonZero),
         readonly     |-> rec[10] >= 128,
         system       |-> rec[11] >= 128,
         entry_number |-> (32 * rec[15] + rec[13]) % 65536]

(* read_catalog, cpmimg.rs:227-292 *)
read_catalog(image) ==
    LET InUse(i) == image.dir[i][1] # EMPTY
        used == SelectSeq(Iota(MAXDIR_ENTRIES), InUse)
    IN  [k \in 1..Len(used) |-> DecodeEntry(used[k], image.dir[used[k]])]

----------------------------------------------------------------------------
(* merge_extents, cpmimg.rs:294-330 *)

EntryKey(e) == <<e.user_number, e.filename, e.filetype>>

(* Vec::sort_by_key is stable: an element goes after those of equal key. *)
RECURSIVE InsertByNumber(_, _)
InsertByNumber(e, sorted) ==
    IF sorted = <<>> THEN <<e>>
    ELSE IF Last(sorted).entry_number <= e.entry_number THEN Append(sorted, e)
    ELSE Append(InsertByNumber(e, Front(sorted)), Last(sorted))

RECURSIVE SortByNumber(_)
SortByNumber(es) ==
    IF es = <<>> THEN <<>> ELSE InsertByNumber(Last(es), SortByNumber(Front(es)))

RECURSIVE MinIdx(_)
MinIdx(es) ==
    IF Len(es) = 1 THEN es[1].directory_entry_idx
    ELSE Min(es[1].directory_entry_idx, MinIdx(Tail(es)))

RECURSIVE AnyFlag(_, _)
AnyFlag(es, flag) ==
    IF es = <<>> THEN FALSE ELSE Head(es)[flag] \/ AnyFlag(Tail(es), flag)

GroupOf(entries, key) ==
    LET Same(e) == EntryKey(e) = key
        group == SelectSeq(entries, Same)
    IN  [first_directory_entry_idx |-> MinIdx(group),
         user_number |-> key[1],
         filename    |-> key[2],
         filetype    |-> key[3],
         readonly    |-> AnyFlag(group, "readonly"),
         system      |-> AnyFlag(group, "system"),
         extents     |-> SortByNumber(group)]

(* file_list.sort_by_key(first_directory_entry_idx) over the map's values. *)
RECURSIVE SortByFirstIdx(_)
SortByFirstIdx(fs) ==
    IF fs = {} THEN <<>>
    ELSE LET f == CHOOSE x \in fs :
                    \A y \in fs : x.first_directory_entry_idx <= y.first_directory_entry_idx
         IN  <<f>> \o SortByFirstIdx(fs \ {f})

merge_extents(entries) ==
    LET keys == { EntryKey(entries[i]) : i \in 1..Len(entries) }
    IN  SortByFirstIdx({ GroupOf(entries, k) : k \in keys })

RECURSIVE SumSizes(_)
SumSizes(es) == IF es = <<>> THEN 0 ELSE extent_size(Head(es)) + SumSizes(Tail(es))

(* FileEntry::file_size, cpmimg.rs:215-217 *)
file_size(f) == SumSizes(f.extents)

----------------------------------------------------------------------------
(* split_cpm_file_name and get_file_entry, cpmimg.rs:332-360 *)

(* The name kept as it was typed. *)
split_cpm_file_name_as_typed(cpm_file_name) ==
    LET parts == SplitName(cpm_file_name, <<>>)
    IN  IF Len(parts) # 3 THEN [ok |-> FALSE]
        ELSE IF Len(parts[2]) > 8 \/ Len(parts[3]) > 3 THEN [ok |-> FALSE]
        ELSE [ok |-> TRUE,
              user     |-> ParseU8(parts[1]),
              filename |-> parts[2],
              filetype |-> parts[3]]

split_cpm_file_name(cpm_file_name) ==
    LET parts == SplitName(cpm_file_name, <<>>)
    IN  IF Len(parts) # 3 THEN [ok |-> FALSE]
        ELSE IF Len(parts[2]) > 8 \/ Len(parts[3]) > 3 THEN [ok |-> FALSE]
        ELSE [ok |-> TRUE,
              user     |-> ParseU8(parts[1]),
              filename |-> to_uppercase(parts[2]),
              filetype |-> to_uppercase(parts[3])]

(* The stored name compared with the name as it was typed. *)
get_file_entry_as_typed(files, cpm_file_name) ==
    LET id == split_cpm_file_name_as_typed(cpm_file_name)
        Is(f) == /\ f.user_number = id.user
                 /\ f.filename = id.filename
                 /\ f.filetype = id.filetype
        hits == SelectSeq(files, Is)
    IN  IF ~id.ok THEN [ok |-> FALSE, found |-> FALSE]
        ELSE IF hits = <<>> THEN [ok |-> TRUE, found |-> FALSE]
        ELSE [ok |-> TRUE, found |-> TRUE, file |-> hits[1]]

(* The first file of the list with the identity, or none. *)
get_file_entry(files, cpm_file_name) ==
    LET id == split_cpm_file_name(cpm_file_name)
        Is(f) == /\ f.user_number = id.user
                 /\ to_uppercase(f.filename) = id.filename
                 /\ to_uppercase(f.filetype) = id.filetype
        hits == SelectSeq(files, Is)
    IN  IF ~id.ok THEN [ok |-> FALSE, found |-> FALSE]
        ELSE IF hits = <<>> THEN [ok |-> TRUE, found |-> FALSE]
        ELSE [ok |-> TRUE, found |-> TRUE, file |-> hits[1]]

----------------------------------------------------------------------------
(* allocation_to_offset, cpmimg.rs:362-376.  The subtraction from          *)
(* TOTAL_DISKSIZE is on usize: a negative result here is the overflow,     *)
(* which panics in a build with overflow checks and wraps in one without.  *)

(* The descending branch counted from 0x9e, the number the branch is *)
(* chosen by.                                                        *)
allocation_to_offset_from_0x9e(a) ==
    LET even == a - (a % 2)
        odd  == a % 2
    IN  IF a < 158
        THEN DATA_OFFSET + even * BLOCKSIZE * NUM_SIDES + odd * BLOCKSIZE
        ELSE TOTAL_DISKSIZE - (even - 158) * BLOCKSIZE * NUM_SIDES + odd * BLOCKSIZE

(* The branch chosen by 0x9d, the number the descending branch counts from. *)
allocation_to_offset_below_0x9d(a) ==
    LET even == a - (a % 2)
        odd  == a % 2
    IN  IF a < 157
        THEN DATA_OFFSET + even * BLOCKSIZE * NUM_SIDES + odd * BLOCKSIZE
        ELSE TOTAL_DISKSIZE - (even - 157) * BLOCKSIZE * NUM_SIDES + odd * BLOCKSIZE

(* The two blocks of a pair at one address. *)
allocation_to_offset_no_parity(a) ==
    LET even == a - (a % 2)
    IN  IF a < 158
        THEN DATA_OFFSET + even * BLOCKSIZE * NUM_SIDES
        ELSE TOTAL_DISKSIZE - (even - 157) * BLOCKSIZE * NUM_SIDES

allocation_to_offset(a) ==
    LET even == a - (a % 2)
        odd  == a % 2
    IN  IF a < 158
        THEN DATA_OFFSET + even * BLOCKSIZE * NUM_SIDES + odd * BLOCKSIZE
        ELSE TOTAL_DISKSIZE - (even - 157) * BLOCKSIZE * NUM_SIDES + odd * BLOCKSIZE

----------------------------------------------------------------------------
(* copy_out, cpmimg.rs:378-412.  checks says whether the build panics on   *)
(* arithmetic overflow, and wrapped whether an overflow wrapped in a build *)
(* that does not.  The result holds the bytes written to the output file,  *)
(* also when the copy fails part way.                                      *)

RECURSIVE AllBlocks(_)
AllBlocks(extents) ==
    IF extents = <<>> THEN <<>> ELSE Head(extents).allocation \o AllBlocks(Tail(extents))

RECURSIVE CopyBlocks(_, _, _, _, _)
CopyBlocks(blocks, image, total_size, bytes, checks) ==
    LET written   == RunsLen(bytes)
        off       == allocation_to_offset(Head(blocks))
        read_size == Min(BLOCKSIZE, total_size - written)
        r         == ReadExact(image, off, read_size)
    IN  IF blocks = <<>> THEN [status |-> "Ok", bytes |-> bytes, wrapped |-> FALSE]
        ELSE IF off < 0 /\ checks THEN [status |-> "Panic", bytes |-> bytes, wrapped |-> FALSE]
        ELSE IF ~r.ok THEN [status |-> "IoFailure", bytes |-> bytes, wrapped |-> off < 0]
        ELSE IF written + read_size >= total_size
             THEN [status |-> "Ok", bytes |-> Cat(bytes, r.bytes), wrapped |-> off < 0]
        ELSE LET rest == CopyBlocks(Tail(blocks), image, total_size,
                                    Cat(bytes, r.bytes), checks)
             IN  [rest EXCEPT !.wrapped = @ \/ off < 0]

copy_out(files, cpm_file_name, image, checks) ==
    LET g == get_file_entry(files, cpm_file_name)
        Result(st, bytes, total, nblocks, wrapped) ==
            [status |-> st, bytes |-> bytes, total |-> total, nblocks |-> nblocks,
             wrapped |-> wrapped]
    IN  IF ~g.ok THEN Result("InvalidName", <<>>, 0, 0, FALSE)
        ELSE IF ~g.found THEN Result("NotFound", <<>>, 0, 0, FALSE)
        ELSE LET r == CopyBlocks(AllBlocks(g.file.extents), image, file_size(g.file),
                                 <<>>, checks)
             IN  Result(r.status, r.bytes, file_size(g.file),
                        Len(AllBlocks(g.file.extents)), r.wrapped)

----------------------------------------------------------------------------
(* copy_in, cpmimg.rs:414-543 *)

(* The blocks the source is split into, lines 427-431. *)
SplitBlocks(file_data) ==
    [k \in 1..((RunsLen(file_data) + BLOCKSIZE - 1) \div BLOCKSIZE) |->
        Take(Drop(file_data, (k - 1) * BLOCKSIZE), BLOCKSIZE)]

(* Sixteen block numbers to an entry. *)
EntriesNeeded16(blocks_needed) == (blocks_needed + 15) \div 16

(* Line 433. *)
EntriesNeeded(blocks_needed) == (blocks_needed + 7) \div 8

RECURSIVE AllExtents(_)
AllExtents(files) ==
    IF files = <<>> THEN <<>> ELSE Head(files).extents \o AllExtents(Tail(files))

Range(s) == { s[i] : i \in 1..Len(s) }

(* Lines 436-448. *)
UsedSlots(files) == { e.directory_entry_idx : e \in Range(AllExtents(files)) }

free_entries(files) ==
    LET used == UsedSlots(files)
        Free(idx) == idx \notin used
    IN  SelectSeq(Iota(MAXDIR_ENTRIES), Free)

(* Lines 455-477: blocks 0 and 1 and every listed block below *)
(* MAX_NUM_BLOCKS are used.                                   *)
UsedBlocks(files) ==
    {0, 1} \cup { b \in Range(AllBlocks(AllExtents(files))) : b < MAX_NUM_BLOCKS }

(* The free blocks listed from the highest number down. *)
free_blocks_highest_first(files) ==
    LET used == UsedBlocks(files)
        Free(b) == b \notin used
        up == SelectSeq(Iota(MAX_NUM_BLOCKS), Free)
    IN  [k \in 1..Len(up) |-> up[Len(up) + 1 - k]]

free_blocks(files) ==
    LET used == UsedBlocks(files)
        Free(b) == b \notin used
    IN  SelectSeq(Iota(MAX_NUM_BLOCKS), Free)

(* Lines 484-518, the loop that builds the DirEntry values.  free is what  *)
(* free_block_iter has left.  The result is the entries, or a panic when   *)
(* file_len_left - 8*BLOCKSIZE overflows in a build that checks overflow;  *)
(* in a build that does not, the negative value stands for the wrapped one.*)
RECURSIVE BuildEntries(_, _, _, _, _, _, _, _)
BuildEntries(i, entries_needed, slots, free, blocks_left, file_len_left, id, checks) ==
    LET want    == Min(8, blocks_left)
        got     == Min(want, Len(free))
        al_list == SubSeq(free, 1, got)
        full    == Len(al_list) >= 8
        e == [directory_entry_idx |-> slots[i + 1],
              user_number  |-> id.user,
              filename     |-> id.filename,
              filetype     |-> id.filetype,
              extent       |-> i % 32,
              s2           |-> (i \div 32) % 256,
              s1           |-> 0,
              record_count |-> IF full THEN 128 ELSE (file_len_left \div 128) % 256,
              allocation   |-> al_list,
              readonly     |-> FALSE,
              system       |-> FALSE,
              entry_number |-> i % 65536]
        rest == BuildEntries(i + 1, entries_needed, slots,
                             SubSeq(free, got + 1, Len(free)), blocks_left - got,
                             IF full THEN file_len_left - 8 * BLOCKSIZE ELSE file_len_left,
                             id, checks)
        over == full /\ file_len_left < 8 * BLOCKSIZE
    IN  IF i >= entries_needed THEN [panic |-> FALSE, wrapped |-> FALSE, entries |-> <<>>]
        ELSE IF over /\ checks THEN [panic |-> TRUE, wrapped |-> FALSE, entries |-> <<>>]
        ELSE [panic |-> rest.panic, wrapped |-> over \/ rest.wrapped,
              entries |-> <<e>> \o rest.entries]

(* Lines 532-540: the blocks of the source go, in order, to the blocks the *)
(* entries list.                                                           *)
RECURSIVE WriteBlocks(_, _, _)
WriteBlocks(als, blocks, image) ==
    IF als = <<>> THEN image
    ELSE WriteBlocks(Tail(als), Tail(blocks),
                     WriteAll(image, allocation_to_offset(Head(als)), Head(blocks)))

NoEntries == <<>>

copy_in(files, cpm_file_name, image, file_data, checks) ==
    LET g  == get_file_entry(files, cpm_file_name)
        id == split_cpm_file_name(cpm_file_name)
        file_len == ((RunsLen(file_data) + 127) \div 128) * 128
        blocks == SplitBlocks(file_data)
        blocks_needed == Len(blocks)
        entries_needed == EntriesNeeded(blocks_needed)
        slots == free_entries(files)
        built == BuildEntries(0, entries_needed, slots, free_blocks(files),
                              blocks_needed, file_len, id, checks)
        wrote == FileEntry_write_to_file(built.entries, image)
        Result(st, im, es) ==
            [status |-> st, img |-> im, entries |-> es,
             blocks_needed |-> blocks_needed, entries_needed |-> entries_needed,
             wrapped |-> st \in {"Ok", "FormatError"} /\ built.wrapped]
    IN  IF ~g.ok THEN Result("InvalidName", image, NoEntries)
        ELSE IF g.found THEN Result("AlreadyExists", image, NoEntries)
        ELSE IF Len(slots) < entries_needed THEN Result("InsufficientSpace", image, NoEntries)
        ELSE IF built.panic THEN Result("Panic", image, NoEntries)
        ELSE IF built.entries = <<>> THEN Result("Panic", image, NoEntries)
        ELSE IF ~wrote.ok THEN Result("FormatError", wrote.img, built.entries)
        ELSE Result("Ok", WriteBlocks(AllBlocks(built.entries), blocks, wrote.img),
                    built.entries)

----------------------------------------------------------------------------
(* delete_file is called at src/src/tools/main.rs:85-87 and is not in the  *)
(* library; this is the operation the specification gives it: NotFound     *)
(* when the identity is absent, and otherwise the user-number byte of      *)
(* every slot of the file's extents becomes 0xE5, nothing else changing.   *)

RECURSIVE EraseSlots(_, _)
EraseSlots(extents, image) ==
    IF extents = <<>> THEN image
    ELSE EraseSlots(Tail(extents),
                    [image EXCEPT !.dir[Head(extents).directory_entry_idx][1] = EMPTY])

delete_file(files, cpm_file_name, image) ==
    LET g == get_file_entry(files, cpm_file_name)
    IN  IF ~g.ok THEN [status |-> "InvalidName", img |-> image]
        ELSE IF ~g.found THEN [status |-> "NotFound", img |-> image]
        ELSE [status |-> "Ok", img |-> EraseSlots(g.file.extents, image)]

----------------------------------------------------------------------------
(* Images that come from a CP/M-86 machine rather than from create_image:  *)
(* a formatted 640K disk (TOTAL_DISKSIZE bytes, all 0xE5) on which the     *)
(* system has written files, with the record layout read_catalog decodes   *)
(* (cpmimg.rs:27-48 and 236-273): names padded with spaces, the flags in   *)
(* bit 7 of the type bytes, eight 16-bit block numbers.                    *)

SpacePad(s, n) == s \o [i \in 1..(n - Len(s)) |-> 32]

CpmRecord(user, name, type, ro, sys, number, rc, alloc) ==
    LET t == SpacePad(type, 3)
    IN  <<user>> \o SpacePad(name, 8)
        \o <<t[1] + (IF ro THEN 128 ELSE 0), t[2] + (IF sys THEN 128 ELSE 0), t[3]>>
        \o <<number % 32, 0, number \div 32, rc>>
        \o LeBytes(alloc) \o [i \in 1..(16 - 2 * Len(alloc)) |-> 0]

(* A formatted disk holding one file of nblocks blocks, first, first+1,    *)
(* ..., whose bytes are the stream t, its extents in slots 0, 1, ... and   *)
(* its last extent holding last_rc records.                                *)
CpmDisk(t, user, name, type, ro, first, nblocks, last_rc) ==
    LET b == Blank(TOTAL_DISKSIZE)
        nextents == (nblocks + 7) \div 8
        BlockAt(p) == { k \in 0..(nblocks - 1) :
                          allocation_to_offset(first + k) = p * BLOCKSIZE }
    IN  [len  |-> b.len,
         dir  |-> [i \in DOMAIN b.dir |->
                     IF i >= nextents THEN b.dir[i]
                     ELSE LET mine == Min(8, nblocks - 8 * i)
                          IN  CpmRecord(user, name, type, ro, FALSE, i,
                                        IF i = nextents - 1 THEN last_rc ELSE 128,
                                        [k \in 1..mine |-> first + 8 * i + k - 1])],
         data |-> [p \in DOMAIN b.data |->
                     IF BlockAt(p) = {} THEN b.data[p]
                     ELSE Stream(t, (CHOOSE k \in BlockAt(p) : TRUE) * BLOCKSIZE, BLOCKSIZE)]]

(* ODD.DAT, read-only: one extent of 127 records that uses all eight block *)
(* numbers.                                                                *)
OddImage == CpmDisk(300, 0, <<79, 68, 68>>, <<68, 65, 84>>, TRUE, 2, 8, 127)

(* BIG.DAT fills blocks 2..311; four blocks stay free. *)
FullImage == CpmDisk(301, 0, <<66, 73, 71>>, <<68, 65, 84>>, FALSE, 2, 310, 96)

----------------------------------------------------------------------------
(* The inputs of the model: names given on the command line and host files *)

N_FULL  == <<48, 58, 65, 66, 67, 68, 69, 70, 71, 72, 46, 84, 88, 84>>      \* 0:ABCDEFGH.TXT
N_SHORT == <<49, 58, 65, 66, 46, 67>>                                      \* 1:AB.C
N_ODD   == <<48, 58, 111, 100, 100, 46, 100, 97, 116>>                     \* 0:odd.dat

Names == {N_FULL, N_SHORT, N_ODD}

(* Names that are not user:filename.filetype with a decimal byte, at most *)
(* 8 and at most 3 characters.                                            *)
N_TWO_PARTS == <<65, 66, 67, 68, 69, 70, 71, 72, 46, 84, 88, 84>>          \* ABCDEFGH.TXT
N_USER_X    == <<120, 58, 65, 66, 67, 68, 69, 70, 71, 72, 46, 84, 88, 84>> \* x:ABCDEFGH.TXT
N_USER_300  == <<51, 48, 48, 58, 65, 66, 67, 68, 69, 70, 71, 72, 46, 84, 88, 84>> \* 300:ABCDEFGH.TXT
N_LONG_NAME == <<48, 58, 65, 66, 67, 68, 69, 70, 71, 72, 73, 46, 84, 88, 84>> \* 0:ABCDEFGHI.TXT
N_LONG_TYPE == <<48, 58, 65, 66, 67, 68, 69, 70, 71, 72, 46, 84, 69, 88, 84>> \* 0:ABCDEFGH.TEXT

MalformedNames == {N_TWO_PARTS, N_USER_X, N_USER_300, N_LONG_NAME, N_LONG_TYPE}

(* Host files by length: empty; part of a record; eight blocks less one    *)
(* record; 36 blocks and part of a record.                                 *)
SourceLengths == {0, 100, 16256, 73828}

HostFile(n) == Stream(256 + n, 0, n)

(* The bound on the number of operations in one run. *)
MaxOps == 2

NoOut == [name |-> <<>>, bytes |-> <<>>, valid |-> FALSE]

Op(op, name, status) ==
    [op |-> op, name |-> name, status |-> status, src |-> <<>>, from |-> <<>>,
     entries |-> NoEntries, blocks_needed |-> 0, entries_needed |-> 0,
     total |-> 0, nblocks |-> 0, size |-> ""]

Files(image) == merge_extents(read_catalog(image))

----------------------------------------------------------------------------
(* The operations, src/src/tools/main.rs:75-91.  An operation that can     *)
(* overflow is taken once for a build that checks overflow and, when an    *)
(* overflow did wrap, once for a build that does not.                      *)

MergeIdle == catalog = <<>> /\ permuted = <<>> /\ merged = <<>>

MergeVars == <<catalog, permuted, merged>>

PureIdle == /\ al = 0 /\ offset = -1 /\ entry = <<>> /\ slot = <<>> /\ decoded = <<>>
            /\ MergeIdle

PureVars == <<al, offset, entry, slot, decoded, catalog, permuted, merged>>

ImageVars == <<img, pre, out, last>>

(* The images a run starts from: the one cpmtool create makes by default   *)
(* (main.rs:22), and the two disks written by a CP/M-86 machine.           *)
InitImages == {create_image("K640"), OddImage, FullImage}

Idle(image) ==
    /\ img = image
    /\ pre = img
    /\ out = NoOut
    /\ last = Op("none", <<>>, "Ok")
    /\ nops = 0

Start(image) == Idle(image) /\ PureIdle

Init == \E image \in InitImages : Start(image)

(* The same, and what cpmtool create IMAGE SIZE makes for every SIZE. *)
SizeImages == InitImages \cup { create_image(size) : size \in DiskSize }

InitSizes == \E image \in SizeImages : Start(image)

(* cpmtool copyin IMAGE SOURCE CPM_FILE, copy_file_in at cpmimg.rs:585-597; *)
(* the source is a host file, or the file the last copy-out wrote.          *)
CopyIn(name, file_data, from, checks) ==
    LET r == copy_in(Files(img), name, img, file_data, checks)
    IN  /\ nops < MaxOps
        /\ checks \/ r.wrapped
        /\ img' = r.img
        /\ pre' = img
        /\ out' = [out EXCEPT !.valid = (out.valid /\ r.img = img)]
        /\ last' = [Op("copyin", name, r.status) EXCEPT
                      !.src = file_data, !.from = from, !.entries = r.entries,
                      !.blocks_needed = r.blocks_needed,
                      !.entries_needed = r.entries_needed]
        /\ nops' = nops + 1
        /\ UNCHANGED PureVars

(* cpmtool copyout IMAGE CPM_FILE TARGET, copy_file_out at cpmimg.rs:599-608 *)
CopyOut(name, checks) ==
    LET r == copy_out(Files(img), name, img, checks)
    IN  /\ nops < MaxOps
        /\ checks \/ r.wrapped
        /\ img' = img
        /\ pre' = img
        /\ out' = [name |-> name, bytes |-> r.bytes, valid |-> r.status = "Ok"]
        /\ last' = [Op("copyout", name, r.status) EXCEPT
                      !.total = r.total, !.nblocks = r.nblocks]
        /\ nops' = nops + 1
        /\ UNCHANGED PureVars

(* cpmtool delete IMAGE CPM_FILE *)
Delete(name) ==
    LET r == delete_file(Files(img), name, img)
    IN  /\ nops < MaxOps
        /\ img' = r.img
        /\ pre' = img
        /\ out' = [out EXCEPT !.valid = (out.valid /\ r.img = img)]
        /\ last' = Op("delete", name, r.status)
        /\ nops' = nops + 1
        /\ UNCHANGED PureVars

(* cpmtool create IMAGE SIZE: File::create makes the file or empties the *)
(* one there is.                                                        *)
Create(size) ==
    /\ nops < MaxOps
    /\ img' = create_image(size)
    /\ pre' = img
    /\ out' = [out EXCEPT !.valid = FALSE]
    /\ last' = [Op("create", <<>>, "Ok") EXCEPT !.size = size]
    /\ nops' = nops + 1
    /\ UNCHANGED PureVars

(* Any other command when there is no image file: File::open fails. *)
OpenFails(op, name) ==
    /\ nops < MaxOps
    /\ img = NoImage
    /\ last' = Op(op, name, "IoFailure")
    /\ nops' = nops + 1
    /\ UNCHANGED <<img, pre, out, PureVars>>

NextOver(names) ==
    \/ \E name \in names, n \in SourceLengths, checks \in BOOLEAN :
          CopyIn(name, HostFile(n), <<>>, checks)
    \/ \E name \in names, checks \in BOOLEAN :
          /\ out.valid
          /\ CopyIn(name, out.bytes, out.name, checks)
    \/ \E name \in names, checks \in BOOLEAN : CopyOut(name, checks)
    \/ \E name \in names : Delete(name)

Next == NextOver(Names)

Spec == Init /\ [][Next]_vars

SpecSizes == InitSizes /\ [][Next]_vars

(* LONGFILE.DAT: what the copy-in of a file of 254 blocks as               *)
(* 0:LONGFILE.DAT leaves of a new 640K image; 0x100 is the next free       *)
(* block.                                                                  *)
LongImage ==
    CpmDisk(302, 0, <<76, 79, 78, 71, 70, 73, 76, 69>>, <<68, 65, 84>>, FALSE, 2, 254, 96)

(* Runs that start with block numbers of two bytes ahead. *)
InitLong == \E image \in {create_image("K640"), OddImage, LongImage} : Start(image)

SpecLong == InitLong /\ [][Next]_vars

(* Runs in which the names given are malformed, but for one. *)
NextNames == NextOver(MalformedNames \cup {N_ODD})

SpecNames == Init /\ [][NextNames]_vars

(* Runs that begin without an image file. *)
InitCreate == Start(NoImage)

NextCreate ==
    \/ \E size \in DiskSize : Create(size)
    \/ \E op \in {"copyin", "copyout", "delete"}, name \in Names : OpenFails(op, name)
    \/ img # NoImage /\ Next

SpecCreate == InitCreate /\ [][NextCreate]_vars

----------------------------------------------------------------------------
(* allocation_to_offset on its own: a block number of the valid range is   *)
(* drawn and translated.                                                   *)

InitAddr ==
    /\ Idle(create_image("K640"))
    /\ al \in 0..(MAX_NUM_BLOCKS - 1)
    /\ offset = -1
    /\ entry = <<>> /\ slot = <<>> /\ decoded = <<>>
    /\ MergeIdle

Translate ==
    /\ nops = 0
    /\ offset' = allocation_to_offset(al)
    /\ nops' = 1
    /\ UNCHANGED <<ImageVars, al, entry, slot, decoded, MergeVars>>

NextAddr == Translate

SpecAddr == InitAddr /\ [][NextAddr]_vars

----------------------------------------------------------------------------
(* The directory codec on its own: a DirEntry is drawn, written to its     *)
(* slot of an empty directory by DirEntry::write_to_file, and the          *)
(* directory is read back by read_catalog.                                 *)

CODEC_SLOT == MAXDIR_ENTRIES - 1

DirEntries ==
    { [directory_entry_idx |-> CODEC_SLOT,
       user_number  |-> u,
       filename     |-> fn,
       filetype     |-> ft,
       extent       |-> 3,
       s2           |-> 1,
       s1           |-> s1,
       record_count |-> rc,
       allocation   |-> alloc,
       readonly     |-> ro,
       system       |-> sys,
       entry_number |-> 32 * 1 + 3] :
      u \in {0, 15},
      fn \in {<<65, 66, 67, 68, 69, 70, 71, 72>>, <<65, 66>>},
      ft \in {<<84, 88, 84>>, <<67>>, <<>>},
      s1 \in {0, 7},
      rc \in {5, 128},
      alloc \in {<<>>, <<2>>, <<2, 3, 4, 5, 6, 7, 8, 300>>},
      ro \in BOOLEAN,
      sys \in BOOLEAN }

InitCodec ==
    /\ Idle(create_image("K640"))
    /\ entry \in DirEntries
    /\ slot = <<>>
    /\ decoded = <<>>
    /\ al = 0 /\ offset = -1
    /\ MergeIdle

Encode ==
    LET r == DirEntry_write_to_file(entry, img)
    IN  /\ nops = 0
        /\ img' = r.img
        /\ pre' = img
        /\ slot' = r.img.dir[entry.directory_entry_idx]
        /\ last' = Op("encode", <<>>, IF r.ok THEN "Ok" ELSE "FormatError")
        /\ nops' = 1
        /\ UNCHANGED <<out, al, offset, entry, decoded, MergeVars>>

Decode ==
    /\ nops = 1
    /\ last.status = "Ok"
    /\ decoded' = read_catalog(img)
    /\ last' = Op("decode", <<>>, "Ok")
    /\ nops' = 2
    /\ UNCHANGED <<img, pre, out, al, offset, entry, slot, MergeVars>>

NextCodec == Encode \/ Decode

SpecCodec == InitCodec /\ [][NextCodec]_vars

----------------------------------------------------------------------------
(* merge_extents on its own: a list of directory entries, in any order,    *)
(* and a permutation of it are merged.  The entries are of two files; two  *)
(* entries of the first have the same extent sequence number, as in a      *)
(* directory whose slots 1 and 4 both hold extent 1 of the file.           *)

MergeLen == 3

MergeEntry(idx, name, low, high, ro, sys) ==
    [directory_entry_idx |-> idx,
     user_number  |-> 0,
     filename     |-> name,
     filetype     |-> <<68, 65, 84>>,
     extent       |-> low,
     s2           |-> high,
     s1           |-> 0,
     record_count |-> 128,
     allocation   |-> <<2 + idx>>,
     readonly     |-> ro,
     system       |-> sys,
     entry_number |-> 32 * high + low]

MergePool ==
    { MergeEntry(0, <<65>>, 3, 0, FALSE, FALSE),
      MergeEntry(1, <<65>>, 1, 0, FALSE, FALSE),
      MergeEntry(2, <<65>>, 2, 0, TRUE, FALSE),
      MergeEntry(3, <<66>>, 1, 1, FALSE, TRUE),
      MergeEntry(4, <<65>>, 1, 0, FALSE, FALSE),
      MergeEntry(5, <<66>>, 31, 0, FALSE, FALSE) }

Injective(s) == \A i, j \in DOMAIN s : i # j => s[i] # s[j]

MergeLists == { s \in [1..MergeLen -> MergePool] : Injective(s) }

InitMerge ==
    /\ Idle(create_image("K640"))
    /\ al = 0 /\ offset = -1
    /\ entry = <<>> /\ slot = <<>> /\ decoded = <<>>
    /\ catalog \in MergeLists
    /\ permuted \in { t \in MergeLists : Range(t) = Range(catalog) }
    /\ merged = <<>>

Merge ==
    /\ nops = 0
    /\ merged' = <<merge_extents(catalog), merge_extents(permuted)>>
    /\ nops' = 1
    /\ UNCHANGED <<ImageVars, al, offset, entry, slot, decoded, catalog, permuted>>

NextMerge == Merge

SpecMerge == InitMerge /\ [][NextMerge]_vars

----------------------------------------------------------------------------
(* What the properties below speak of, stated on the bytes of the image    *)
(* rather than through the operations.                                     *)

ValidName(name) ==
    LET parts == SplitName(name, <<>>)
    IN  Len(parts) = 3 /\ Len(parts[2]) <= 8 /\ Len(parts[3]) <= 3

(* The records of the catalog that carry the identity name gives, compared *)
(* without regard to case.                                                 *)
RecordsOf(image, name) ==
    LET parts == SplitName(name, <<>>)
        Is(e) == /\ e.user_number = ParseU8(parts[1])
                 /\ to_uppercase(e.filename) = to_uppercase(parts[2])
                 /\ to_uppercase(e.filetype) = to_uppercase(parts[3])
    IN  SelectSeq(read_catalog(image), Is)

Present(image, name) == ValidName(name) /\ RecordsOf(image, name) # <<>>

(* Block numbers in [0, MAX_NUM_BLOCKS) that are not 0, not 1 and not in   *)
(* any record's allocation list.                                           *)
FreeBlockNumbers(image) ==
    LET cat == read_catalog(image)
    IN  { b \in 2..(MAX_NUM_BLOCKS - 1) :
            \A k \in 1..Len(cat) : b \notin Range(cat[k].allocation) }

FreeSlotNumbers(image) == { i \in 0..(MAXDIR_ENTRIES - 1) : image.dir[i][1] = EMPTY }

CeilDiv(a, b) == (a + b - 1) \div b

(* The last operation was a copy-in that got past the name checks. *)
CopiedIn ==
    /\ last.op = "copyin"
    /\ ValidName(last.name)
    /\ ~Present(pre, last.name)

(* C1: a copy-in whose source needs more blocks than are free fails with   *)
(* InsufficientSpace and leaves every byte of the image as it was.         *)
C1_InsufficientBlocks ==
    (CopiedIn /\ last.blocks_needed > Cardinality(FreeBlockNumbers(pre)))
        => (last.status = "InsufficientSpace" /\ img = pre)

(* C2: copy-out of a file F followed by copy-in of those bytes under a new *)
(* identity G, on an image with enough free slots and blocks, gives a file *)
(* G with F's size and F's bytes.                                          *)
C2_RoundTrip ==
    (/\ CopiedIn
     /\ last.from # <<>>
     /\ last.blocks_needed <= Cardinality(FreeBlockNumbers(pre))
     /\ CeilDiv(last.blocks_needed, 8) <= Cardinality(FreeSlotNumbers(pre)))
        => LET f == get_file_entry(Files(pre), last.from)
               g == get_file_entry(Files(img), last.name)
               o == copy_out(Files(img), last.name, img, TRUE)
           IN  /\ last.status = "Ok"
               /\ g.found
               /\ file_size(g.file) = file_size(f.file)
               /\ o.status = "Ok"
               /\ o.bytes = last.src

(* C3: after a successful copy-in the catalog, read again and merged, has  *)
(* exactly one file with the identity given, and every record written has  *)
(* the user number at byte 0, the extent number at bytes 12 and 14, the    *)
(* record count at byte 15 and the block numbers from byte 16.             *)
C3_IdentityReadBack ==
    (last.op = "copyin" /\ last.status = "Ok")
        => LET id == split_cpm_file_name(last.name)
               Is(f) == /\ f.user_number = id.user
                        /\ to_uppercase(f.filename) = to_uppercase(id.filename)
                        /\ to_uppercase(f.filetype) = to_uppercase(id.filetype)
           IN  /\ Len(SelectSeq(Files(img), Is)) = 1
               /\ \A k \in 1..Len(last.entries) :
                     LET e   == last.entries[k]
                         rec == img.dir[e.directory_entry_idx]
                     IN  /\ rec[1] = e.user_number
                         /\ rec[13] = e.extent
                         /\ rec[15] = e.s2
                         /\ rec[16] = e.record_count
                         /\ SubSeq(rec, 17, 16 + 2 * Len(e.allocation)) = LeBytes(e.allocation)

(* C4: copy-in under an identity the catalog already has (user number,     *)
(* filename and filetype, compared without regard to case) fails with      *)
(* AlreadyExists and the image is byte for byte what it was.               *)
C4_AlreadyExists ==
    (last.op = "copyin" /\ Present(pre, last.name))
        => (last.status = "AlreadyExists" /\ img = pre)

(* The name was given in lower case and the catalog has it in upper case. *)
C4_Witness ==
    /\ last.op = "copyin"
    /\ last.name = N_ODD
    /\ Present(pre, last.name)
    /\ last.status = "AlreadyExists"
    /\ img = pre

(* C5: decoding the 32 bytes that encoding a valid entry produces gives    *)
(* back the entry, equal in every field.                                   *)
C5_CodecRoundTrip == (nops = 2 /\ last.op = "decode") => decoded = <<entry>>

(* C6, as stated: below the threshold 0x9e a block maps to                 *)
(* data_offset + even*block_size*sides + parity*block_size, and from the   *)
(* threshold on to total - (even - threshold)*block_size*sides             *)
(* + parity*block_size.                                                    *)
C6_ThresholdFormula ==
    nops = 1 =>
        LET even      == 2 * (al \div 2)
            parity    == al % 2
            threshold == 158
        IN  offset = IF al < threshold
                     THEN DATA_OFFSET + even * BLOCKSIZE * NUM_SIDES + parity * BLOCKSIZE
                     ELSE TOTAL_DISKSIZE - (even - threshold) * BLOCKSIZE * NUM_SIDES
                          + parity * BLOCKSIZE

(* C6, amended: the descending branch, taken from 0x9e on, counts from     *)
(* 0x9d: total - (even - 0x9d)*block_size*sides + parity*block_size.       *)
C6_OffsetFormula ==
    nops = 1 =>
        LET even   == 2 * (al \div 2)
            parity == al % 2
        IN  offset = IF al < 158
                     THEN DATA_OFFSET + even * BLOCKSIZE * NUM_SIDES + parity * BLOCKSIZE
                     ELSE TOTAL_DISKSIZE - (even - 157) * BLOCKSIZE * NUM_SIDES
                          + parity * BLOCKSIZE

(* Both branches are taken at their first block: 0x9d is the last block of *)
(* the ascending branch and 0x9f the odd block of the first descending     *)
(* pair.                                                                   *)
C6_Witness == nops = 1 /\ al = 159 /\ offset = TOTAL_DISKSIZE - BLOCKSIZE

(* The side a byte of the data area is on: a track of one side, 4096       *)
(* bytes, alternates with the same track of the other side.                *)
Side(off) == (off % (NUM_SIDES * 2 * BLOCKSIZE)) \div (2 * BLOCKSIZE)

(* Where the ascending blocks end: the start of the last track of side 1. *)
Boundary == TOTAL_DISKSIZE - 2 * BLOCKSIZE

(* C7: every block number of [0, MAX_NUM_BLOCKS) maps to a block that lies *)
(* inside the data area of the image; 0x9d maps to side 0, 0x9e to side 1  *)
(* and above 0x9d, and the offset of 0x9e is less than the total size.     *)
C7_InBounds ==
    nops = 1 =>
        /\ DATA_OFFSET <= offset
        /\ offset + BLOCKSIZE <= TOTAL_DISKSIZE
        /\ al = 157 => (Side(offset) = 0 /\ offset + BLOCKSIZE <= Boundary)
        /\ al = 158 => (Side(offset) = 1 /\ offset >= Boundary /\ offset < TOTAL_DISKSIZE)

C7_Witness == nops = 1 /\ al = 158 /\ Side(offset) = 1 /\ offset = Boundary

(* C8: copy-out never writes more than the size of the file, and writes    *)
(* exactly that when the allocation lists hold at least                    *)
(* ceil(total_size / block_size) blocks.                                   *)
C8_CopyOutLength ==
    (last.op = "copyout" /\ Present(img, last.name))
        => /\ RunsLen(out.bytes) <= last.total
           /\ last.nblocks >= CeilDiv(last.total, BLOCKSIZE)
                 => RunsLen(out.bytes) = last.total

(* C9, as stated: copy-in creates ceil(blocks_needed / 16) entries of up   *)
(* to 16 block numbers, one with 16 having record count 0x80.              *)
C9_SixteenPerEntry ==
    (last.op = "copyin" /\ last.status = "Ok")
        => /\ Len(last.entries) = CeilDiv(CeilDiv(RunsLen(last.src), BLOCKSIZE), 16)
           /\ \A k \in 1..Len(last.entries) :
                 /\ Len(last.entries[k].allocation) <= 16
                 /\ Len(last.entries[k].allocation) = 16
                       => last.entries[k].record_count = 128

(* C9, amended: a copy-in that succeeds writes ceil(blocks_needed / 8)     *)
(* directory records, each with at most 8 block numbers, and a record with *)
(* 8 has record count 0x80.                                                *)
C9_EightPerEntry ==
    (last.op = "copyin" /\ last.status = "Ok")
        => LET n == CeilDiv(CeilDiv(RunsLen(last.src), BLOCKSIZE), 8)
           IN  /\ Len(last.entries) = n
               /\ Cardinality(FreeSlotNumbers(pre)) - Cardinality(FreeSlotNumbers(img)) = n
               /\ \A k \in 1..Len(last.entries) :
                     LET e == last.entries[k]
                     IN  /\ Len(e.allocation) <= 8
                         /\ Len(e.allocation) = 8 => e.record_count = 128
                         /\ img.dir[e.directory_entry_idx] = ZeroPad(EntryBuf(e))

(* 37 blocks: four records of 8 blocks and one of 5. *)
C9_Witness ==
    /\ last.op = "copyin"
    /\ last.status = "Ok"
    /\ CeilDiv(RunsLen(last.src), BLOCKSIZE) = 37
    /\ Len(last.entries) = 5
    /\ Len(last.entries[1].allocation) = 8
    /\ last.entries[1].record_count = 128
    /\ Len(last.entries[5].allocation) = 5

(* C10: a delete of an identity that is present succeeds, the user-number  *)
(* byte of every slot of its records is 0xE5 afterwards and a list no      *)
(* longer has it; a delete of an identity that is absent fails with        *)
(* NotFound and leaves the image as it was.                                *)
C10_Delete ==
    (last.op = "delete" /\ ValidName(last.name))
        => IF Present(pre, last.name)
           THEN /\ last.status = "Ok"
                /\ ~get_file_entry(Files(img), last.name).found
                /\ ~Present(img, last.name)
                /\ LET recs == RecordsOf(pre, last.name)
                   IN  \A k \in 1..Len(recs) :
                          img.dir[recs[k].directory_entry_idx][1] = EMPTY
           ELSE last.status = "NotFound" /\ img = pre

(* A file of several records, copied in and then deleted. *)
C10_Witness ==
    /\ last.op = "delete"
    /\ last.status = "Ok"
    /\ Len(RecordsOf(pre, last.name)) > 1
    /\ ~Present(img, last.name)

(* C11: merge gives the same files, in the same order, with the same flags *)
(* and the same order of extents, for a list of entries and for every      *)
(* permutation of it.                                                      *)
C11_OrderIndependent == nops = 1 => merged[1] = merged[2]

(* The k-th lowest number of a set of numbers. *)
Nth(S, k) == CHOOSE x \in S : Cardinality({ y \in S : y < x }) = k - 1

ClassBytes(size) ==
    CASE size = "K160"   -> 160 * 1024
      [] size = "K320"   -> 320 * 1024
      [] size \in {"K360", "K360_2"} -> 360 * 1024
      [] size = "K640"   -> 636 * 1024
      [] size \in {"K720", "K720_2"} -> 720 * 1024
      [] size = "K1200"  -> 1200 * 1024
      [] size = "K1440"  -> 1440 * 1024

ClassDescriptor(size) ==
    CASE size = "K160"   -> 0
      [] size = "K320"   -> 1
      [] size = "K1200"  -> 12
      [] size = "K360"   -> 16
      [] size = "K720"   -> 17
      [] size = "K360_2" -> 64
      [] size = "K720_2" -> 72
      [] size = "K1440"  -> 144
      [] size = "K640"   -> EMPTY

WellFormed(name) ==
    LET parts == SplitName(name, <<>>)
    IN  /\ Len(parts) = 3
        /\ parts[1] # <<>>
        /\ \A i \in 1..Len(parts[1]) : parts[1][i] \in 48..57
        /\ Digits(parts[1], 0) <= 255
        /\ Len(parts[2]) <= 8
        /\ Len(parts[3]) <= 3

(* C14: copy-in under a name that is not well formed is rejected with a    *)
(* parse error and no byte of the image is written.                        *)
C14_MalformedName ==
    (last.op = "copyin" /\ ~WellFormed(last.name))
        => (last.status = "InvalidName" /\ img = pre)

(* The number of chunks that the entries before the k-th hold. *)
RECURSIVE ChunksBefore(_, _)
ChunksBefore(es, k) ==
    IF k <= 1 THEN 0 ELSE ChunksBefore(es, k - 1) + Len(es[k - 1].allocation)

(* The bytes of a source of n bytes that lie in chunks from + 1 .. to. *)
BytesOfChunks(n, from, to) == Min(n, to * BLOCKSIZE) - Min(n, from * BLOCKSIZE)

(* C15: for a source of n > 0 bytes every entry copy-in writes has record  *)
(* count min(128, ceil(bytes of its extent / 128)), 0x80 only for an       *)
(* extent of 16384 bytes, and the size listed for the new file is n        *)
(* rounded up to a multiple of 128.                                        *)
C15_RecordCount ==
    (last.op = "copyin" /\ last.status = "Ok" /\ RunsLen(last.src) > 0)
        => LET n  == RunsLen(last.src)
               es == last.entries
           IN  /\ \A k \in 1..Len(es) :
                     LET from  == ChunksBefore(es, k)
                         bytes == BytesOfChunks(n, from, from + Len(es[k].allocation))
                     IN  /\ es[k].record_count = Min(128, CeilDiv(bytes, 128))
                         /\ es[k].record_count = 128 => bytes = 128 * 128
               /\ SumSizes(es) = CeilDiv(n, 128) * 128

(* The block numbers the catalog lists, record by record. *)
ListedBlocks(image) == AllBlocks(read_catalog(image))

(* No block number is listed twice in the catalog, none listed is 0 or 1, *)
(* and no directory slot holds two records.                                *)
NoSharing(image) ==
    LET blocks == ListedBlocks(image)
        cat    == read_catalog(image)
    IN  /\ \A i, j \in 1..Len(blocks) : i # j => blocks[i] # blocks[j]
        /\ \A i \in 1..Len(blocks) : blocks[i] \notin {0, 1}
        /\ \A i, j \in 1..Len(cat) :
              i # j => cat[i].directory_entry_idx # cat[j].directory_entry_idx

(* C16: from a new image, after successful copy-ins under distinct         *)
(* identities, no block number is listed twice in the catalog read back,   *)
(* none listed is 0 or 1, and no directory slot holds two records.  The    *)
(* runs looked at are a new image, or one that holds the first file copied *)
(* in, and one more copy-in on it.                                         *)
C16_NoSharedBlock ==
    (\E image \in {create_image("K640"), LongImage} :
        \/ img = image
        \/ pre = image /\ last.op = "copyin" /\ last.status = "Ok")
        => NoSharing(img)

(* Two byte ranges, each from its first byte up to its end, share no byte. *)
Disjoint(from1, to1, from2, to2) == to1 <= from2 \/ to2 <= from1

(* C17: the blocks of two distinct block numbers of [0, MAX_NUM_BLOCKS)    *)
(* share no byte, and the block of a number from 2 on shares no byte with  *)
(* the directory region [0x2000, 0x2000 + 128*32).                         *)
C17_DisjointBlocks ==
    nops = 1 =>
        /\ \A b \in 0..(MAX_NUM_BLOCKS - 1) :
              b # al => Disjoint(offset, offset + BLOCKSIZE,
                                 allocation_to_offset(b),
                                 allocation_to_offset(b) + BLOCKSIZE)
        /\ al >= 2 => Disjoint(offset, offset + BLOCKSIZE, CATALOG_OFFSET,
                               CATALOG_OFFSET + MAXDIR_ENTRIES * DIRENTRY_SIZE)

(* The lowest block of the descending branch starts where the directory    *)
(* region ends.                                                            *)
C17_Witness ==
    /\ nops = 1
    /\ al = MAX_NUM_BLOCKS - 2
    /\ offset = CATALOG_OFFSET + MAXDIR_ENTRIES * DIRENTRY_SIZE

(* C18: on an image that create made, of any class, every block a          *)
(* successful copy-in writes ends at or before the end of the image, and   *)
(* the length of the image is the same afterwards.                         *)
C18_WritesInside ==
    (/\ last.op = "copyin"
     /\ last.status = "Ok"
     /\ \E size \in DiskSize : pre = create_image(size))
        => LET blocks == AllBlocks(last.entries)
               n      == RunsLen(last.src)
           IN  /\ \A k \in 1..Len(blocks) :
                     allocation_to_offset(blocks[k])
                        + Min(BLOCKSIZE, n - (k - 1) * BLOCKSIZE) <= pre.len
               /\ img.len = pre.len

(* C19: copy-in ends in success or in an error it returns, never in an     *)
(* abort, whatever the length of the source; after a copy-in of an empty   *)
(* source the catalog of the image still decodes, with no block listed     *)
(* twice.                                                                  *)
C19_NeverAborts ==
    last.op = "copyin"
        => /\ last.status # "Panic"
           /\ (RunsLen(last.src) = 0 /\ NoSharing(pre)) => NoSharing(img)

============================================================================
